---- MODULE Spec2Model ----
(***************************************************************************)
(* A model of drive_db: the metadata database that mirrors the change log  *)
(* of a remote drive into a LevelDB store.                                 *)
(*                                                                         *)
(* Two variants of the package are modelled over the same store:           *)
(*   - the channel variant (pollForChanges/readChanges feed a channel that *)
(*     sync/processChange drains; inodes come from InodeForFileId), under  *)
(*     the specification Spec;                                             *)
(*   - the single-loop variant (one sync goroutine that fetches a page and *)
(*     writes it as one batch), under the specification SpecLoop.          *)
(***************************************************************************)
EXTENDS Integers, Sequences, FiniteSets, TLC

(***************************************************************************)
(* Bounds of the exploration.                                              *)
(***************************************************************************)
\* changes the remote change log may hold
MaxChanges == 2
\* the same, in the specifications that afford a longer log
MaxLongChanges == 3
\* items per page of the change listing (MaxResults(1000) in the source)
PageSize == 2
\* timer ticks of pollForChanges after the first readChanges
MaxPolls == 1
\* process crashes followed by a restart (NewDriveDB on the same store)
MaxCrash == 1
\* store writes that fail
MaxFail == 1
\* foreground InodeForFileId calls
MaxCalls == 2
\* pages in the channel beyond which the ticker's cycles are not followed
MaxQueue == 1

(***************************************************************************)
(* Program constants.                                                      *)
(***************************************************************************)
\* d.cpt.LastInode = 1000 when no checkpoint is stored
InodeFloor == 1000
\* cpt.LastInode = 1 in the single-loop variant
LoopInodeFloor == 1
\* make(chan *gdrive.ChangeList, 200)
ChanCap == 200

(***************************************************************************)
(* Remote ids, files and changes.  A remote id is a string, modelled as a  *)
(* sequence of characters so that key prefixes are what they are in the    *)
(* store.                                                                  *)
(***************************************************************************)
\* the ids in byte order, the order in which an iterator yields their keys
IdSeq == << <<"a">>, <<"b">> >>
Ids == {IdSeq[i] : i \in DOMAIN IdSeq}
RootId == <<"r">>
NoId == <<>>
NoFile == [Id |-> NoId]
NoCpt == [LastChangeID |-> -1, LastInode |-> 0]

Fg == {"f1", "f2"}
Applier == "applier"
Tasks == Fg \cup {Applier}

ParentRoot == [Id |-> RootId, IsRoot |-> TRUE]
ParentFolder(p) == [Id |-> p, IsRoot |-> FALSE]

MkFile(x, parents, trashed, hidden) ==
    [Id |-> x, Parents |-> parents,
     Labels |-> [Trashed |-> trashed, Hidden |-> hidden]]

\* the snapshots of file x the remote may report
RemoteFiles(x) ==
    {MkFile(x, <<ParentRoot>>, FALSE, FALSE)}
    \cup {MkFile(x, <<ParentFolder(p)>>, FALSE, FALSE) : p \in Ids \ {x}}
    \cup {MkFile(x, <<ParentRoot>>, TRUE, FALSE)}
    \cup {MkFile(x, <<ParentRoot>>, FALSE, TRUE)}

\* the change items the remote may append as change number n
RemoteChanges(n) ==
    {[Id |-> n, FileId |-> x, Deleted |-> TRUE, File |-> NoFile] : x \in Ids}
    \cup UNION {{[Id |-> n, FileId |-> x, Deleted |-> FALSE, File |-> f]
                   : f \in RemoteFiles(x)} : x \in Ids}

(***************************************************************************)
(* Key schema.  A key is its three-letter tag and the part after "tag:".   *)
(* inodeToFileIdKey formats the inode with %d, which is one-to-one; the    *)
(* model keeps the number.                                                 *)
(***************************************************************************)
internalKey(key) == [tag |-> "int", v |-> key]
fileIdToInodeKey(key) == [tag |-> "f2i", v |-> key]
inodeToFileIdKey(key) == [tag |-> "i2f", v |-> key]
fileKey(key) == [tag |-> "fid", v |-> key]
childKey(key) == [tag |-> "kid", v |-> key]
rootKey(key) == [tag |-> "rtf", v |-> key]
deKey(key) == key.v

CheckpointKey == internalKey("checkpoint")
\* pr.Id + ":" + fileId
ChildRef(p, c) == p \o <<":">> \o c

\* strings.HasPrefix on the part after the tag
IsPrefix(p, s) == Len(p) <= Len(s) /\ SubSeq(s, 1, Len(p)) = p

(***************************************************************************)
(* The store: a function from the keys present to their values.  A batch   *)
(* is a sequence of puts and deletes applied in order, all or nothing.     *)
(* Values are JSON-encoded on write and decoded on read with the same      *)
(* codec, so a value read is the value written.                            *)
(***************************************************************************)
Has(d, k) == k \in DOMAIN d
DbPut(d, k, val) == [x \in (DOMAIN d) \cup {k} |-> IF x = k THEN val ELSE d[x]]
DbDelete(d, k) == [x \in (DOMAIN d) \ {k} |-> d[x]]

BPut(k, val) == [op |-> "put", key |-> k, val |-> val]
BDelete(k) == [op |-> "del", key |-> k, val |-> <<>>]

RECURSIVE DbWrite(_, _)
DbWrite(d, b) ==
    IF b = <<>> THEN d
    ELSE LET o == Head(b)
         IN DbWrite(IF o.op = "put" THEN DbPut(d, o.key, o.val)
                    ELSE DbDelete(d, o.key), Tail(b))

\* iterator over util.BytesPrefix(tag:prefix): the keys, in key order
PrefixKeys(d, tag, prefix) ==
    {k \in DOMAIN d : k.tag = tag /\ IsPrefix(prefix, k.v)}

\* a set of sequences as a sequence (the order does not matter to a batch
\* of deletes of distinct keys)
RECURSIVE SetToSeq(_)
SetToSeq(S) ==
    IF S = {} THEN <<>>
    ELSE LET e == CHOOSE e \in S : TRUE IN <<e>> \o SetToSeq(S \ {e})

EmptyDb == [k \in {} |-> <<>>]

\* d.get(fileIdToInodeKey(fileId), &inode): 0 stands for the error
GetInode(d, x) == IF Has(d, fileIdToInodeKey(x)) THEN d[fileIdToInodeKey(x)] ELSE 0
\* FileById
FileById(d, x) == IF Has(d, fileKey(x)) THEN d[fileKey(x)] ELSE NoFile
\* FileIdForInode
FileIdForInode(d, n) ==
    IF Has(d, inodeToFileIdKey(n)) THEN d[inodeToFileIdKey(n)] ELSE NoId
\* RootFileIds
RootFileIds(d) == {deKey(k) : k \in PrefixKeys(d, "rtf", <<>>)}
\* the inodes that have a reverse key
Inodes(d) == {deKey(k) : k \in {j \in DOMAIN d : j.tag = "i2f"}}
\* the checkpoint as stored
StoredCpt(d) == IF Has(d, CheckpointKey) THEN d[CheckpointKey] ELSE NoCpt


(***************************************************************************)
(* State.                                                                  *)
(***************************************************************************)
VARIABLES
    db,        \* the LevelDB store (durable: survives a crash)
    history,   \* the remote change log, change n at position n
    cpt,       \* d.cpt, the in-memory checkpoint (the loop variant's local cpt)
    changes,   \* d.changes, the channel from readChanges to sync
    ppc,       \* pollForChanges: "read" | "do" | "send" | "idle"
    cursor,    \* the listing request l: the first change id it will return
    pending,   \* the page c that l.Do() returned, not yet sent
    apc,       \* the sync goroutine's position
    page,      \* the page c that sync is applying
    idx,       \* the index of the item being applied
    batch,     \* the applier's batch
    call,      \* per task: its InodeForFileId call (singleflight state)
    lru,       \* d.lruCache (the loop variant's d.files)
    waiters,   \* the tasks blocked in WaitUntilSynced
    nPolls, nCrash, nFail, nCalls,   \* what is left of each budget
    lastRet,   \* observer: per id, the inode InodeForFileId last returned
    pre,       \* observer: the file and inode of the item's id when the item began
    done,      \* observer: the last page processChange finished, and the store then
    qry,       \* the foreground query in progress, and what the last one returned
    iters,     \* d.iters, the iterators that are open
    closed,    \* Close has closed the store and set d.db to nil
    cpc        \* Close: "idle" | "wait" | "close" | "done"; "panic" once the process died

storeVars == <<db, history>>
pollVars == <<ppc, cursor, pending>>
applyVars == <<apc, page, idx, batch>>
budgetVars == <<nPolls, nCrash, nFail, nCalls>>
vars == <<db, history, cpt, changes, ppc, cursor, pending, apc, page, idx,
          batch, call, lru, waiters, nPolls, nCrash, nFail, nCalls, lastRet,
          pre, done, qry, iters, closed, cpc>>
obsVars == <<lastRet, pre, done>>
qryVars == <<qry, iters, closed, cpc>>

NoPage == [Items |-> <<>>, LargestChangeId |-> 0, NextPageToken |-> FALSE]
EmptyLru == [k \in {} |-> <<>>]
\* a task that is in no InodeForFileId call.  seen: -1 when the call is not
\* observed, 0 when it started on an unseen id and no call for that id has
\* returned since, else the inode the first such call returned.  incs: the
\* nextInode increments made for the id since the call started.
IdleCall == [st |-> "idle", id |-> NoId, inode |-> 0, ck |-> NoCpt,
             seen |-> -1, incs |-> 0]

\* the keys of d.lruCache: an inode, or the sentinel "rootInodes"
LruInode(n) == <<"inode", n>>
LruRootInodes == <<"rootInodes">>
\* lruCache.Remove
LruRemove(l, k) == [x \in (DOMAIN l) \ {k} |-> l[x]]
\* lruCache.Add
LruAdd(l, k, v) == [x \in (DOMAIN l) \cup {k} |-> IF x = k THEN v ELSE l[x]]

\* NewDriveDB on an empty store: the checkpoint read fails, LastInode is set
\* to the floor and the checkpoint is written
FirstCpt == [LastChangeID |-> 0, LastInode |-> InodeFloor]

NoPre == [file |-> NoFile, inode |-> 0]
PreOf(d, x) == [file |-> FileById(d, x), inode |-> GetInode(d, x)]
NoDone == [page |-> NoPage, db |-> EmptyDb]
\* no query in progress.  op: the operation; st: its position; arg: its
\* argument; ids: what it has collected or returned; batch: the batch it has
\* built; at: the store when it scanned
NoQry == [op |-> "none", st |-> "idle", arg |-> NoId, ids |-> {},
          batch |-> <<>>, at |-> EmptyDb]

\* the state NewDriveDB leaves on an empty store, and what the environment
\* may still do: timer ticks, crashes, failing store writes, foreground calls
InitState(polls, crashes, fails, calls) ==
    /\ db = DbPut(EmptyDb, CheckpointKey, FirstCpt)
    /\ history = <<>>
    /\ cpt = FirstCpt
    /\ changes = <<>>
    /\ ppc = "read"
    /\ cursor = 0
    /\ pending = NoPage
    /\ apc = "recv"
    /\ page = NoPage
    /\ idx = 0
    /\ batch = <<>>
    /\ call = [t \in Tasks |-> IdleCall]
    /\ lru = EmptyLru
    /\ waiters = {}
    /\ nPolls = polls /\ nCrash = crashes /\ nFail = fails /\ nCalls = calls
    /\ lastRet = [x \in Ids |-> 0]
    /\ pre = NoPre
    /\ done = NoDone
    /\ qry = NoQry
    /\ iters = 0
    /\ closed = FALSE
    /\ cpc = "idle"

Init == InitState(MaxPolls, MaxCrash, 0, 0)

(***************************************************************************)
(* The remote drive: a change is appended to the change log.               *)
(***************************************************************************)
RemoteChange ==
    /\ UNCHANGED qryVars
    /\ Len(history) < MaxChanges
    /\ \E c \in RemoteChanges(Len(history) + 1) : history' = Append(history, c)
    /\ UNCHANGED <<db, cpt, changes, pollVars, applyVars, call, lru, waiters,
                   budgetVars, obsVars>>

\* the same, when the remote only removes files and puts files in the root
RemoteChangePlain ==
    /\ UNCHANGED qryVars
    /\ Len(history) < MaxChanges
    /\ \E c \in RemoteChanges(Len(history) + 1) :
         /\ c.Deleted \/ c.File = MkFile(c.FileId, <<ParentRoot>>, FALSE, FALSE)
         /\ history' = Append(history, c)
    /\ UNCHANGED <<db, cpt, changes, pollVars, applyVars, call, lru, waiters,
                   budgetVars, obsVars>>

\* the same, with the longer log
RemoteChangeLong ==
    /\ UNCHANGED qryVars
    /\ Len(history) < MaxLongChanges
    /\ \E c \in RemoteChanges(Len(history) + 1) :
         /\ c.Deleted \/ c.File = MkFile(c.FileId, <<ParentRoot>>, FALSE, FALSE)
         /\ history' = Append(history, c)
    /\ UNCHANGED <<db, cpt, changes, pollVars, applyVars, call, lru, waiters,
                   budgetVars, obsVars>>

\* the longer log, when only the first file changes
RemoteChangeOne ==
    /\ UNCHANGED qryVars
    /\ Len(history) < MaxLongChanges
    /\ \E c \in RemoteChanges(Len(history) + 1) :
         /\ c.FileId = IdSeq[1]
         /\ history' = Append(history, c)
    /\ UNCHANGED <<db, cpt, changes, pollVars, applyVars, call, lru, waiters,
                   budgetVars, obsVars>>

\* a change that takes a change id and that the listing does not show
OmittedChange(n) == [Id |-> n, FileId |-> NoId, Deleted |-> FALSE, File |-> NoFile]
RemoteChangeOmitted ==
    /\ UNCHANGED qryVars
    /\ Len(history) < MaxChanges
    /\ history' = Append(history, OmittedChange(Len(history) + 1))
    /\ UNCHANGED <<db, cpt, changes, pollVars, applyVars, call, lru, waiters,
                   budgetVars, obsVars>>

(***************************************************************************)
(* Changes.List: the items with change id >= start that the listing shows, *)
(* out of at most PageSize changes, the largest change id of the log, and  *)
(* whether a next page exists.                                             *)
(***************************************************************************)
ListChanges(h, start) ==
    LET from == IF start < 1 THEN 1 ELSE start
        to == IF from + PageSize - 1 < Len(h) THEN from + PageSize - 1 ELSE Len(h)
    IN [Items |-> IF from > Len(h) THEN <<>>
                  ELSE SelectSeq(SubSeq(h, from, to), LAMBDA i : i.FileId # NoId),
        LargestChangeId |-> Len(h),
        NextPageToken |-> to < Len(h) /\ from <= Len(h)]

(***************************************************************************)
(* pollForChanges / readChanges.                                           *)
(***************************************************************************)
\* the ticker fires and pollForChanges calls readChanges
PollTick ==
    /\ UNCHANGED qryVars
    /\ ppc = "idle"
    /\ nPolls > 0
    /\ nPolls' = nPolls - 1
    /\ ppc' = "read"
    /\ UNCHANGED <<storeVars, cpt, changes, cursor, pending, applyVars, call,
                   lru, waiters, nCrash, nFail, nCalls, obsVars>>

\* the ticker fires, as often as the queue of pages leaves room
PollTickAlways ==
    /\ UNCHANGED qryVars
    /\ ppc = "idle"
    /\ Len(changes) < MaxQueue
    /\ ppc' = "read"
    /\ UNCHANGED <<storeVars, cpt, changes, cursor, pending, applyVars, call,
                   lru, waiters, budgetVars, obsVars>>

\* the ticker fires with pages in the queue; its cycles are followed up to
\* the full channel while the remote log is empty
PollTickFlood ==
    /\ UNCHANGED qryVars
    /\ ppc = "idle"
    /\ Len(changes) >= MaxQueue
    /\ history = <<>>
    /\ ppc' = "read"
    /\ UNCHANGED <<storeVars, cpt, changes, cursor, pending, applyVars, call,
                   lru, waiters, budgetVars, obsVars>>

\* readChanges, up to the loop: lastChangeId and StartChangeId
ReadChangesStart ==
    /\ UNCHANGED qryVars
    /\ ppc = "read"
    /\ cursor' = IF cpt.LastChangeID > 0 THEN cpt.LastChangeID + 1 ELSE 0
    /\ ppc' = "do"
    /\ UNCHANGED <<storeVars, cpt, changes, pending, applyVars, call, lru,
                   waiters, budgetVars, obsVars>>

\* c, err := l.Do()
ReadChangesDo ==
    /\ UNCHANGED qryVars
    /\ ppc = "do"
    /\ pending' = ListChanges(history, cursor)
    /\ ppc' = "send"
    /\ UNCHANGED <<storeVars, cpt, changes, cursor, applyVars, call, lru,
                   waiters, budgetVars, obsVars>>

\* a send that puts the page before those that wait, which C25 must tell
\* from Enqueue
EnqueueFirst(q, c) == <<c>> \o q
\* d.changes <- c on the buffered channel: the page goes behind those in it
Enqueue(q, c) == Append(q, c)

\* d.changes <- c, then the next page or the end of the cycle
ReadChangesSend ==
    /\ UNCHANGED qryVars
    /\ ppc = "send"
    /\ Len(changes) < ChanCap
    /\ changes' = Enqueue(changes, pending)
    /\ pending' = NoPage
    /\ IF Len(pending.Items) > 0 /\ pending.NextPageToken
       THEN /\ cursor' = pending.Items[Len(pending.Items)].Id + 1
            /\ ppc' = "do"
       ELSE /\ cursor' = 0
            /\ ppc' = "idle"
    /\ UNCHANGED <<storeVars, cpt, applyVars, call, lru, waiters, budgetVars,
                   obsVars>>


(***************************************************************************)
(* InodeForFileId: sf.Do("inf:" + fileId, inodeForFileIdImpl).  The task   *)
(* that finds no call in flight for the id runs inodeForFileIdImpl; tasks  *)
(* that arrive while it runs wait and get its result.                      *)
(***************************************************************************)
\* the tasks whose inodeForFileIdImpl for x is in flight (g.m[key])
SfLeaders(x) ==
    {t \in Tasks : call[t].st \in {"snap", "write"} /\ call[t].id = x}
SfWaiters(x) == {t \in Tasks : call[t].st = "wait" /\ call[t].id = x}

\* no forward key for x and no reverse key that names x
Unseen(x) ==
    /\ GetInode(db, x) = 0
    /\ \A n \in Inodes(db) : FileIdForInode(db, n) # x

NewCall(st, x, inode) ==
    [st |-> st, id |-> x, inode |-> inode, ck |-> NoCpt,
     seen |-> IF Unseen(x) THEN 0 ELSE -1, incs |-> 0]

\* observer: a call for x returned v
RetObs(c, x, v) ==
    [u \in Tasks |->
        IF c[u].st # "idle" /\ c[u].id = x /\ c[u].seen = 0
        THEN [c[u] EXCEPT !.seen = v] ELSE c[u]]
\* observer: nextInode ran for x
IncObs(c, x) ==
    [u \in Tasks |->
        IF c[u].st # "idle" /\ c[u].id = x /\ c[u].seen >= 0
        THEN [c[u] EXCEPT !.incs = @ + 1] ELSE c[u]]

\* what sf.Do finds for x: a call in flight, a stored forward key, or neither
EnterKind(x) ==
    IF SfLeaders(x) # {} THEN "wait"
    ELSE IF GetInode(db, x) # 0 THEN "hit" ELSE "alloc"

\* an allocator that skips a number, which C13 must tell from nextInode
nextInodeSkipping(c) == [c EXCEPT !.LastInode = @ + 2]
\* nextInode, up to the call of writeCheckpoint
nextInode(c) == [c EXCEPT !.LastInode = @ + 1]

\* the batch of inodeForFileIdImpl: the checkpoint as writeCheckpoint read
\* it, and the forward and reverse keys
AllocBatch(ck, x, inode) ==
    <<BPut(CheckpointKey, ck),
      BPut(fileIdToInodeKey(x), inode),
      BPut(inodeToFileIdKey(inode), x)>>

(***************************************************************************)
(* processChange, item by item.  apc is the line the applier is at:        *)
(*   "recv"  c = <-d.changes                                               *)
(*   "l600"  InodeForFileId(i.FileId) at the top of the loop               *)
(*   "rm"    RemoveFileById up to and with its db.Write                    *)
(*   "l468"  InodeForFileId in RemoveFileById                              *)
(*   "l493"  InodeForFileId in UpdateFile                                  *)
(*   "ckpt"  setLastChangeId and writeCheckpoint(batch)                    *)
(*   "commit" db.Write(batch)                                              *)
(***************************************************************************)
Item == page.Items[idx]
Deleting(i) == i.Deleted \/ i.File.Labels.Trashed \/ i.File.Labels.Hidden

\* UpdateFile's puts: the file, and one key per parent reference
RECURSIVE ParentPuts(_, _)
ParentPuts(x, prs) ==
    IF prs = <<>> THEN <<>>
    ELSE <<IF Head(prs).IsRoot THEN BPut(rootKey(x), <<>>)
           ELSE BPut(childKey(ChildRef(Head(prs).Id, x)), <<>>)>>
         \o ParentPuts(x, Tail(prs))
UpdateFilePuts(f) == <<BPut(fileKey(f.Id), f)>> \o ParentPuts(f.Id, f.Parents)

\* RemoveFileById's deletes: the file, its forward key, its root key, every
\* key the iterator over childKey(fileId) yields, and the child key under
\* each parent of the stored file
RECURSIVE ParentDeletes(_, _)
ParentDeletes(x, prs) ==
    IF prs = <<>> THEN <<>>
    ELSE <<BDelete(childKey(ChildRef(Head(prs).Id, x)))>>
         \o ParentDeletes(x, Tail(prs))
RemoveFileDeletes(d, x) ==
    <<BDelete(fileKey(x)), BDelete(fileIdToInodeKey(x)), BDelete(rootKey(x))>>
    \o SetToSeq({BDelete(k) : k \in PrefixKeys(d, "kid", x)})
    \o (IF FileById(d, x) # NoFile THEN ParentDeletes(x, FileById(d, x).Parents)
        ELSE <<>>)

\* the applier goes on after InodeForFileId returned (val, err) at line apc
AppCont(val, err) ==
    /\ apc' = CASE apc = "l600" -> IF Deleting(Item) THEN "rm" ELSE "l493"
                [] apc = "l468" -> "ckpt"
                [] apc = "l493" -> "ckpt"
    /\ lru' = CASE apc = "l600" -> IF err /\ val > 0 THEN LruRemove(lru, LruInode(val)) ELSE lru
                [] apc = "l468" -> IF ~err THEN LruRemove(lru, LruInode(val)) ELSE lru
                [] apc = "l493" -> IF ~err /\ val > 0 THEN LruRemove(lru, LruInode(val)) ELSE lru
    /\ batch' = IF apc = "l493" /\ ~err THEN batch \o UpdateFilePuts(Item.File)
                ELSE batch

\* synced.Broadcast() when the in-memory last change id has reached largest
Broadcast(c, largest) == IF c.LastChangeID >= largest THEN {} ELSE waiters

\* c = <-d.changes and the start of processChange
ApplierRecv ==
    /\ UNCHANGED qryVars
    /\ apc = "recv"
    /\ changes # <<>>
    /\ changes' = Tail(changes)
    /\ LET c == Head(changes)
       IN IF Len(c.Items) = 0
          THEN /\ waiters' = Broadcast(cpt, c.LargestChangeId)
               /\ UNCHANGED <<applyVars, pre>>
          ELSE /\ page' = c /\ idx' = 1 /\ batch' = <<>> /\ apc' = "l600"
               /\ pre' = PreOf(db, c.Items[1].FileId)
               /\ UNCHANGED waiters
    /\ UNCHANGED <<storeVars, cpt, pollVars, call, lru, budgetVars, lastRet,
                   done>>

\* the applier calls InodeForFileId(i.FileId)
ApplierCall ==
    /\ ~closed
    /\ UNCHANGED qryVars
    /\ apc \in {"l600", "l468", "l493"}
    /\ call[Applier].st = "idle"
    /\ LET x == Item.FileId
           kind == EnterKind(x)
       IN \/ /\ kind = "wait"
             /\ call' = [call EXCEPT ![Applier] = NewCall("wait", x, 0)]
             /\ UNCHANGED <<cpt, obsVars, apc, batch, lru>>
          \/ /\ kind = "hit"
             /\ lastRet' = [lastRet EXCEPT ![x] = GetInode(db, x)]
             /\ call' = RetObs(call, x, GetInode(db, x))
             /\ AppCont(GetInode(db, x), FALSE)
             /\ UNCHANGED <<cpt, pre, done>>
          \/ /\ kind = "alloc"
             /\ cpt' = nextInode(cpt)
             /\ call' = IncObs([call EXCEPT ![Applier] =
                                  NewCall("snap", x, cpt'.LastInode)], x)
             /\ UNCHANGED <<obsVars, apc, batch, lru>>
    /\ UNCHANGED <<storeVars, changes, pollVars, page, idx, waiters, budgetVars>>

\* writeCheckpoint(batch) in nextInode: the checkpoint is read under the lock
SfSnap(t) ==
    /\ UNCHANGED qryVars
    /\ call[t].st = "snap"
    /\ call' = [call EXCEPT ![t].st = "write", ![t].ck = cpt]
    /\ UNCHANGED <<storeVars, cpt, changes, pollVars, applyVars, lru, waiters,
                   budgetVars, obsVars>>

\* db.Write(batch) in inodeForFileIdImpl; the call returns to the task and
\* to every task that waited for it
SfWrite(t) ==
    /\ ~closed
    /\ UNCHANGED qryVars
    /\ call[t].st = "write"
    /\ \E ok \in BOOLEAN :
        LET x == call[t].id
            val == IF ok THEN call[t].inode ELSE 0
            back == SfWaiters(x) \cup {t}
            obs == IF ok THEN RetObs(call, x, val) ELSE call
        IN /\ ok \/ nFail > 0
           /\ nFail' = IF ok THEN nFail ELSE nFail - 1
           /\ db' = IF ok THEN DbWrite(db, AllocBatch(call[t].ck, x, call[t].inode))
                    ELSE db
           /\ lastRet' = IF ok THEN [lastRet EXCEPT ![x] = val] ELSE lastRet
           /\ call' = [u \in Tasks |-> IF u \in back THEN IdleCall ELSE obs[u]]
           /\ IF Applier \in back THEN AppCont(val, ~ok)
              ELSE UNCHANGED <<apc, batch, lru>>
    /\ UNCHANGED <<history, cpt, changes, pollVars, page, idx, waiters, nPolls,
                   nCrash, nCalls, pre, done>>

\* RemoveFileById(i.FileId, batch): the deletes go to the batch and the
\* batch is written
ApplierRemove ==
    /\ ~closed
    /\ UNCHANGED qryVars
    /\ apc = "rm"
    /\ batch' = batch \o RemoveFileDeletes(db, Item.FileId)
    /\ \E ok \in BOOLEAN :
        /\ ok \/ nFail > 0
        /\ nFail' = IF ok THEN nFail ELSE nFail - 1
        /\ db' = IF ok THEN DbWrite(db, batch') ELSE db
        /\ apc' = IF ok THEN "l468" ELSE "ckpt"
    /\ UNCHANGED <<history, cpt, changes, pollVars, page, idx, call, lru,
                   waiters, nPolls, nCrash, nCalls, obsVars>>

\* setLastChangeId(i.Id) and writeCheckpoint(batch)
ApplierCheckpoint ==
    /\ UNCHANGED qryVars
    /\ apc = "ckpt"
    /\ cpt' = [cpt EXCEPT !.LastChangeID = Item.Id]
    /\ batch' = Append(batch, BPut(CheckpointKey, cpt'))
    /\ apc' = "commit"
    /\ UNCHANGED <<storeVars, changes, pollVars, page, idx, call, lru, waiters,
                   budgetVars, obsVars>>

\* db.Write(batch), then the next item or the end of the page
ApplierCommit ==
    /\ ~closed
    /\ UNCHANGED qryVars
    /\ apc = "commit"
    /\ \E ok \in BOOLEAN :
        /\ ok \/ nFail > 0
        /\ nFail' = IF ok THEN nFail ELSE nFail - 1
        /\ db' = IF ok THEN DbWrite(db, batch) ELSE db
        /\ IF ok /\ idx < Len(page.Items)
           THEN /\ idx' = idx + 1 /\ batch' = <<>> /\ apc' = "l600"
                /\ pre' = PreOf(db', page.Items[idx + 1].FileId)
                /\ UNCHANGED <<page, lru, waiters, done>>
           ELSE /\ idx' = 0 /\ batch' = <<>> /\ apc' = "recv" /\ page' = NoPage
                /\ pre' = NoPre
                /\ done' = IF ok THEN [page |-> page, db |-> db'] ELSE NoDone
                /\ lru' = IF ok THEN LruRemove(lru, LruRootInodes) ELSE lru
                /\ waiters' = IF ok THEN Broadcast(cpt, page.LargestChangeId)
                              ELSE waiters
    /\ UNCHANGED <<history, cpt, changes, pollVars, call, nPolls, nCrash,
                   nCalls, lastRet>>

(***************************************************************************)
(* Foreground callers of InodeForFileId.                                   *)
(***************************************************************************)
\* a task calls InodeForFileId(x) and has not reached sf.Do yet
FgInvoke(t, x) ==
    /\ UNCHANGED qryVars
    /\ call[t].st = "idle"
    /\ nCalls > 0
    /\ nCalls' = nCalls - 1
    /\ call' = [call EXCEPT ![t] = NewCall("called", x, 0)]
    /\ UNCHANGED <<storeVars, cpt, changes, pollVars, applyVars, lru, waiters,
                   nPolls, nCrash, nFail, obsVars>>

\* the task enters sf.Do
FgEnter(t) ==
    /\ UNCHANGED qryVars
    /\ call[t].st = "called"
    /\ LET x == call[t].id
           kind == EnterKind(x)
       IN \/ /\ kind = "wait"
             /\ call' = [call EXCEPT ![t].st = "wait"]
             /\ UNCHANGED <<cpt, obsVars>>
          \/ /\ kind = "hit"
             /\ lastRet' = [lastRet EXCEPT ![x] = GetInode(db, x)]
             /\ call' = [RetObs(call, x, GetInode(db, x)) EXCEPT ![t] = IdleCall]
             /\ UNCHANGED <<cpt, pre, done>>
          \/ /\ kind = "alloc"
             /\ cpt' = nextInode(cpt)
             /\ call' = IncObs([call EXCEPT ![t].st = "snap",
                                            ![t].inode = cpt'.LastInode], x)
             /\ UNCHANGED obsVars
    /\ UNCHANGED <<storeVars, changes, pollVars, applyVars, lru, waiters,
                   budgetVars>>

(***************************************************************************)
(* The process dies and NewDriveDB opens the same store again.             *)
(***************************************************************************)
Crash ==
    /\ qry' = NoQry /\ iters' = 0 /\ closed' = FALSE /\ cpc' = "idle"
    /\ nCrash > 0
    /\ nCrash' = nCrash - 1
    /\ cpt' = StoredCpt(db)
    /\ changes' = <<>>
    /\ ppc' = "read" /\ cursor' = 0 /\ pending' = NoPage
    /\ apc' = "recv" /\ page' = NoPage /\ idx' = 0 /\ batch' = <<>>
    /\ call' = [t \in Tasks |-> IdleCall]
    /\ lru' = EmptyLru
    /\ waiters' = {}
    /\ pre' = NoPre
    /\ done' = NoDone
    /\ UNCHANGED <<storeVars, nPolls, nFail, nCalls, lastRet>>

Next ==
    \/ RemoteChange
    \/ PollTick
    \/ ReadChangesStart
    \/ ReadChangesDo
    \/ ReadChangesSend
    \/ ApplierRecv
    \/ ApplierCall
    \/ ApplierRemove
    \/ ApplierCheckpoint
    \/ ApplierCommit
    \/ SfSnap(Applier)
    \/ SfWrite(Applier)
    \/ Crash

Spec == Init /\ [][Next]_vars

(***************************************************************************)
(* The channel variant with store writes that may fail.                    *)
(***************************************************************************)
InitFail == InitState(MaxPolls, MaxCrash, MaxFail, 0)
SpecFail == InitFail /\ [][Next]_vars

(***************************************************************************)
(* The channel variant with foreground tasks that call InodeForFileId      *)
(* while the applier runs.  pollForChanges reads the changes once after    *)
(* each start.                                                             *)
(***************************************************************************)
InitConc == InitState(0, MaxCrash, 0, MaxCalls)
NextConc ==
    \/ RemoteChangePlain
    \/ ReadChangesStart
    \/ ReadChangesDo
    \/ ReadChangesSend
    \/ ApplierRecv
    \/ ApplierCall
    \/ ApplierRemove
    \/ ApplierCheckpoint
    \/ ApplierCommit
    \/ \E t \in Tasks : SfSnap(t)
    \/ \E t \in Tasks : SfWrite(t)
    \/ \E t \in Fg, x \in Ids : FgInvoke(t, x)
    \/ \E t \in Fg : FgEnter(t)
    \/ Crash
SpecConc == InitConc /\ [][NextConc]_vars

(***************************************************************************)
(* The channel variant with one foreground call and the longer log.        *)
(***************************************************************************)
InitReuse == InitState(0, MaxCrash, 0, MaxCalls - 1)
NextReuse ==
    \/ RemoteChangeLong
    \/ ReadChangesStart
    \/ ReadChangesDo
    \/ ReadChangesSend
    \/ ApplierRecv
    \/ ApplierCall
    \/ ApplierRemove
    \/ ApplierCheckpoint
    \/ ApplierCommit
    \/ \E t \in Tasks : SfSnap(t)
    \/ \E t \in Tasks : SfWrite(t)
    \/ \E x \in Ids : FgInvoke("f1", x)
    \/ FgEnter("f1")
    \/ Crash
SpecReuse == InitReuse /\ [][NextReuse]_vars


(***************************************************************************)
(* Query operations, as functions of the store.                            *)
(***************************************************************************)
\* ChildFileIds: of the keys under childKey(fileId), the part after the
\* parent id and its separator, kept when the child's file key exists
\* the slice taken one byte early, which C11 must tell from ChildOf
ChildOfWithSeparator(k, p) == SubSeq(deKey(k), Len(p) + 1, Len(deKey(k)))
ChildOf(k, p) == SubSeq(deKey(k), Len(p) + 2, Len(deKey(k)))
ChildFileIds(d, p) ==
    {c \in {ChildOf(k, p) : k \in PrefixKeys(d, "kid", p)} : Has(d, fileKey(c))}
\* ChildFileIds: the store after the batch that deletes the scanned keys
\* whose child has no file key
ChildFileIdsDb(d, p) ==
    DbWrite(d, SetToSeq({BDelete(k) : k \in
                {j \in PrefixKeys(d, "kid", p) : ~Has(d, fileKey(ChildOf(j, p)))}}))

(***************************************************************************)
(* The single-loop variant: sync reads the checkpoint, then fetches a page *)
(* and writes all of it as one batch, again and again.  apc is             *)
(*   "start"  before the checkpoint is read                                *)
(*   "do"     before l.Do()                                                *)
(*   "apply"  a page with items was fetched and the checkpoint is behind   *)
(***************************************************************************)
\* RebuildCache: the files map, or "err"; the store after the ChildFileIds
\* calls it made.  Children are kept as a set of inodes.
RECURSIVE RebuildCacheFrom(_, _, _)
RebuildCacheFrom(d, ids, cache) ==
    IF ids = <<>> THEN [db |-> d, ok |-> TRUE, files |-> cache]
    ELSE LET x == Head(ids)
             inode == GetInode(d, x)
             kids == ChildFileIds(d, x)
             d1 == ChildFileIdsDb(d, x)
         IN IF FileById(d, x) = NoFile \/ inode = 0
            THEN [db |-> d, ok |-> FALSE, files |-> cache]
            ELSE IF \E c \in kids : GetInode(d1, c) = 0
            THEN [db |-> d1, ok |-> FALSE, files |-> cache]
            ELSE RebuildCacheFrom(d1, Tail(ids),
                    [n \in (DOMAIN cache) \cup {inode} |->
                        IF n = inode
                        THEN [File |-> FileById(d, x), Inode |-> inode,
                              Children |-> {GetInode(d1, c) : c \in kids}]
                        ELSE cache[n]])
RebuildCache(d) ==
    RebuildCacheFrom(d, SelectSeq(IdSeq, LAMBDA x : Has(d, fileKey(x))), EmptyLru)

\* the loop over c.Items: the batch and the local checkpoint after it
RECURSIVE LoopItems(_, _, _, _)
LoopItems(d, items, b, c) ==
    IF items = <<>> THEN [batch |-> b, cpt |-> c]
    ELSE LET i == Head(items)
             x == i.FileId
             seen == [c EXCEPT !.LastChangeID = i.Id]
         IN IF Deleting(i)
            THEN LoopItems(d, Tail(items), b \o RemoveFileDeletes(d, x), seen)
            ELSE IF Has(d, fileIdToInodeKey(x))
            THEN LoopItems(d, Tail(items), Append(b, BPut(fileKey(x), i.File)), seen)
            ELSE LoopItems(d, Tail(items),
                    b \o <<BPut(fileKey(x), i.File),
                           BPut(fileIdToInodeKey(x), c.LastInode + 1),
                           BPut(inodeToFileIdKey(c.LastInode + 1), x)>>
                      \o ParentPuts(x, i.File.Parents),
                    nextInode(seen))

InitLoop ==
    /\ db = EmptyDb
    /\ history = <<>>
    /\ cpt = NoCpt
    /\ changes = <<>>
    /\ ppc = "idle"
    /\ cursor = 0
    /\ pending = NoPage
    /\ apc = "start"
    /\ page = NoPage
    /\ idx = 0
    /\ batch = <<>>
    /\ call = [t \in Tasks |-> IdleCall]
    /\ lru = EmptyLru
    /\ waiters = {}
    /\ nPolls = 0 /\ nCrash = MaxCrash /\ nFail = 0 /\ nCalls = 0
    /\ lastRet = [x \in Ids |-> 0]
    /\ pre = NoPre
    /\ done = NoDone
    /\ qry = NoQry
    /\ iters = 0
    /\ closed = FALSE
    /\ cpc = "idle"

LoopRemoteChange ==
    /\ UNCHANGED qryVars
    /\ Len(history) < MaxLongChanges
    /\ \E c \in RemoteChanges(Len(history) + 1) : history' = Append(history, c)
    /\ UNCHANGED <<db, cpt, changes, pollVars, applyVars, call, lru, waiters,
                   budgetVars, obsVars>>

\* the saved checkpoint is read and the listing is set up
LoopOpen ==
    /\ UNCHANGED qryVars
    /\ apc = "start"
    /\ cpt' = IF Has(db, CheckpointKey) THEN db[CheckpointKey]
              ELSE [LastChangeID |-> 0, LastInode |-> LoopInodeFloor]
    /\ cursor' = IF cpt'.LastChangeID > 0 THEN cpt'.LastChangeID + 1 ELSE 0
    /\ apc' = "do"
    /\ UNCHANGED <<storeVars, changes, ppc, pending, page, idx, batch, call,
                   lru, waiters, budgetVars, obsVars>>

\* RebuildCache and synced.Broadcast()
LoopSynced(d) ==
    /\ db' = RebuildCache(d).db
    /\ lru' = IF RebuildCache(d).ok THEN RebuildCache(d).files ELSE lru
    /\ waiters' = {}

\* c, err := l.Do(), and the two tests that end the round
LoopFetch ==
    /\ UNCHANGED qryVars
    /\ apc = "do"
    /\ LET c == ListChanges(history, cursor)
       IN IF cpt.LastChangeID >= c.LargestChangeId \/ Len(c.Items) = 0
          THEN /\ LoopSynced(db)
               /\ UNCHANGED <<apc, page>>
          ELSE /\ page' = c
               /\ apc' = "apply"
               /\ UNCHANGED <<db, lru, waiters>>
    /\ UNCHANGED <<history, cpt, changes, pollVars, idx, batch, call,
                   budgetVars, obsVars>>

\* the items go to one batch with the checkpoint, and the batch is written
LoopApply ==
    /\ UNCHANGED qryVars
    /\ apc = "apply"
    /\ LET r == LoopItems(db, page.Items, <<>>, cpt)
           b == Append(r.batch, BPut(CheckpointKey, r.cpt))
       IN /\ cpt' = r.cpt
          /\ \E ok \in BOOLEAN :
               /\ ok \/ nFail > 0
               /\ nFail' = IF ok THEN nFail ELSE nFail - 1
               /\ IF ~ok
                  THEN UNCHANGED <<db, lru, waiters, cursor>>
                  ELSE IF page.NextPageToken
                  THEN /\ db' = DbWrite(db, b)
                       /\ cursor' = page.Items[Len(page.Items)].Id + 1
                       /\ UNCHANGED <<lru, waiters>>
                  ELSE /\ IF r.cpt.LastChangeID >= page.LargestChangeId
                          THEN LoopSynced(DbWrite(db, b))
                          ELSE /\ db' = DbWrite(db, b)
                               /\ UNCHANGED <<lru, waiters>>
                       /\ cursor' = r.cpt.LastChangeID + 1
    /\ apc' = "do"
    /\ page' = NoPage
    /\ UNCHANGED <<history, changes, ppc, pending, idx, batch, call, nPolls,
                   nCrash, nCalls, obsVars>>

\* the process dies and NewDriveDB opens the same store again
LoopCrash ==
    /\ qry' = NoQry /\ iters' = 0 /\ closed' = FALSE /\ cpc' = "idle"
    /\ nCrash > 0
    /\ nCrash' = nCrash - 1
    /\ cpt' = NoCpt
    /\ cursor' = 0
    /\ apc' = "start"
    /\ page' = NoPage
    /\ lru' = EmptyLru
    /\ waiters' = {}
    /\ UNCHANGED <<storeVars, changes, ppc, pending, idx, batch, call, nPolls,
                   nFail, nCalls, obsVars>>

NextLoop ==
    \/ LoopRemoteChange
    \/ LoopOpen
    \/ LoopFetch
    \/ LoopApply
    \/ LoopCrash

SpecLoop == InitLoop /\ [][NextLoop]_vars

(***************************************************************************)
(* Foreground queries.  One query runs at a time; qry.st is                *)
(*   "idle"     none has run since the start                               *)
(*   "iter"     its iterator is open (a snapshot of the store)             *)
(*   "scanned"  ChildFileIds has released the iterator and holds a batch   *)
(*   "ids"      RootInodes has the root file ids                           *)
(*   "ret"      the last query has returned qry.ids                        *)
(***************************************************************************)
QryFree == qry.st \in {"idle", "ret"}
\* observer: alternates from one call that may answer from the cache to the
\* next, so that a call that returns what the last one returned is a step
NextTurn == IF "turn" \in DOMAIN qry THEN 1 - qry.turn ELSE 0
QryRet(ids) == [qry EXCEPT !.st = "ret", !.ids = ids, !.batch = <<>>]

\* ChildFileIds(fileId): d.iters.Add(1) and d.db.NewIterator
ChildFileIdsOpen(p) ==
    /\ ~closed
    /\ QryFree
    /\ qry' = [op |-> "children", st |-> "iter", arg |-> p, ids |-> {},
               batch |-> <<>>, at |-> db]
    /\ iters' = iters + 1
    /\ UNCHANGED <<storeVars, cpt, changes, pollVars, applyVars, call, lru,
                   waiters, budgetVars, obsVars, closed, cpc>>

\* the loop over the iterator, iter.Release() and d.iters.Done(): the keys
\* are those of the snapshot, fileKey(cid) is looked up in the store
ChildFileIdsScan ==
    /\ ~closed
    /\ qry.op = "children" /\ qry.st = "iter"
    /\ LET p == qry.arg
           keys == PrefixKeys(qry.at, "kid", p)
           ids == {ChildOf(k, p) : k \in {j \in keys : Has(db, fileKey(ChildOf(j, p)))}}
           b == SetToSeq({BDelete(k) : k \in
                            {j \in keys : ~Has(db, fileKey(ChildOf(j, p)))}})
       IN qry' = IF b = <<>> THEN QryRet(ids)
                 ELSE [qry EXCEPT !.st = "scanned", !.ids = ids, !.batch = b]
    /\ iters' = iters - 1
    /\ UNCHANGED <<storeVars, cpt, changes, pollVars, applyVars, call, lru,
                   waiters, budgetVars, obsVars, closed, cpc>>

\* d.db.Write(batch, nil); an error is logged and the ids are returned
ChildFileIdsWrite ==
    /\ ~closed
    /\ qry.op = "children" /\ qry.st = "scanned"
    /\ \E ok \in BOOLEAN :
        /\ ok \/ nFail > 0
        /\ nFail' = IF ok THEN nFail ELSE nFail - 1
        /\ db' = IF ok THEN DbWrite(db, qry.batch) ELSE db
    /\ qry' = QryRet(qry.ids)
    /\ UNCHANGED <<history, cpt, changes, pollVars, applyVars, call, lru,
                   waiters, nPolls, nCrash, nCalls, obsVars, iters, closed, cpc>>

(***************************************************************************)
(* The channel variant with ChildFileIds queries, the longer log of one    *)
(* file, and store writes that may fail.  pollForChanges reads the changes *)
(* once.                                                                   *)
(***************************************************************************)
InitQuery == InitState(0, 0, MaxFail, 0)
NextQuery ==
    \/ RemoteChangeOne
    \/ ReadChangesStart
    \/ ReadChangesDo
    \/ ReadChangesSend
    \/ ApplierRecv
    \/ ApplierCall
    \/ ApplierRemove
    \/ ApplierCheckpoint
    \/ ApplierCommit
    \/ SfSnap(Applier)
    \/ SfWrite(Applier)
    \/ \E p \in Ids : ChildFileIdsOpen(p)
    \/ ChildFileIdsScan
    \/ ChildFileIdsWrite
SpecQuery == InitQuery /\ [][NextQuery]_vars

(***************************************************************************)
(* RootInodes: the cached list when the cache has one, else RootFileIds,   *)
(* InodeForFileId for each id, and lruCache.Add.  The ids under rtf: have  *)
(* an inode in the store, so each InodeForFileId returns the stored one;   *)
(* the reads of the store are taken together as one step.                  *)
(***************************************************************************)
\* lruCache.Get("rootInodes")
RootInodesGet ==
    /\ ~closed
    /\ QryFree
    /\ qry' = IF LruRootInodes \in DOMAIN lru
              THEN [op |-> "roots", st |-> "ret", arg |-> NoId,
                    ids |-> lru[LruRootInodes], batch |-> <<>>, at |-> EmptyDb,
                    turn |-> NextTurn]
              ELSE [op |-> "roots", st |-> "miss", arg |-> NoId, ids |-> {},
                    batch |-> <<>>, at |-> EmptyDb, turn |-> NextTurn]
    /\ UNCHANGED <<storeVars, cpt, changes, pollVars, applyVars, call, lru,
                   waiters, budgetVars, obsVars, iters, closed, cpc>>

\* RootFileIds and the loop over the ids
RootInodesScan ==
    /\ ~closed
    /\ qry.op = "roots" /\ qry.st = "miss"
    /\ qry' = [qry EXCEPT !.st = "found",
                          !.ids = {GetInode(db, x) : x \in RootFileIds(db)}]
    /\ UNCHANGED <<storeVars, cpt, changes, pollVars, applyVars, call, lru,
                   waiters, budgetVars, obsVars, iters, closed, cpc>>

\* lruCache.Add("rootInodes", ids) and the return
RootInodesAdd ==
    /\ qry.op = "roots" /\ qry.st = "found"
    /\ lru' = LruAdd(lru, LruRootInodes, qry.ids)
    /\ qry' = QryRet(qry.ids)
    /\ UNCHANGED <<storeVars, cpt, changes, pollVars, applyVars, call,
                   waiters, budgetVars, obsVars, iters, closed, cpc>>

InitRoots == InitState(0, 0, 0, 0)
NextRoots ==
    \/ RemoteChangePlain
    \/ ReadChangesStart
    \/ ReadChangesDo
    \/ ReadChangesSend
    \/ ApplierRecv
    \/ ApplierCall
    \/ ApplierRemove
    \/ ApplierCheckpoint
    \/ ApplierCommit
    \/ SfSnap(Applier)
    \/ SfWrite(Applier)
    \/ RootInodesGet
    \/ RootInodesScan
    \/ RootInodesAdd
SpecRoots == InitRoots /\ [][NextRoots]_vars

(***************************************************************************)
(* Refresh(fileId): Files.Get and UpdateFile(nil, f).  qry.batch is b, the *)
(* batch UpdateFile fills; the batch it hands to db.Write is its           *)
(* parameter, which Refresh passes as nil.  InodeForFileId is taken as one *)
(* step, when no call for the id is in flight.                             *)
(***************************************************************************)
\* the parameter batch of UpdateFile(nil, f); db.Write of it writes nothing
NilBatch == <<>>

\* Files.Get(fileId).Do() returns f
RefreshGet(x) ==
    /\ ~closed
    /\ QryFree
    /\ \E f \in RemoteFiles(x) :
         qry' = [op |-> "refresh", st |-> "got", arg |-> x, ids |-> {},
                 batch |-> UpdateFilePuts(f), at |-> EmptyDb]
    /\ UNCHANGED <<storeVars, cpt, changes, pollVars, applyVars, call, lru,
                   waiters, budgetVars, obsVars, iters, closed, cpc>>

\* UpdateFile: InodeForFileId(fileId), lruCache.Remove(inode), the puts to b
RefreshInode ==
    /\ ~closed
    /\ qry.op = "refresh" /\ qry.st = "got"
    /\ EnterKind(qry.arg) # "wait"
    /\ LET x == qry.arg
           hit == EnterKind(x) = "hit"
           c == IF hit THEN cpt ELSE nextInode(cpt)
           inode == IF hit THEN GetInode(db, x) ELSE c.LastInode
       IN /\ cpt' = c
          /\ db' = IF hit THEN db ELSE DbWrite(db, AllocBatch(c, x, inode))
          /\ lru' = LruRemove(lru, LruInode(inode))
          /\ lastRet' = [lastRet EXCEPT ![x] = inode]
          /\ qry' = [qry EXCEPT !.st = "built", !.ids = {inode}]
    /\ UNCHANGED <<history, changes, pollVars, applyVars, call, waiters,
                   budgetVars, pre, done, iters, closed, cpc>>

\* d.db.Write(batch, nil) and the return of the file
RefreshWrite ==
    /\ ~closed
    /\ qry.op = "refresh" /\ qry.st = "built"
    /\ db' = DbWrite(db, NilBatch)
    /\ qry' = [qry EXCEPT !.st = "ret"]
    /\ UNCHANGED <<history, cpt, changes, pollVars, applyVars, call, lru,
                   waiters, budgetVars, obsVars, iters, closed, cpc>>

InitRefresh == InitState(0, 0, 0, 0)
NextRefresh ==
    \/ RemoteChangePlain
    \/ ReadChangesStart
    \/ ReadChangesDo
    \/ ReadChangesSend
    \/ ApplierRecv
    \/ ApplierCall
    \/ ApplierRemove
    \/ ApplierCheckpoint
    \/ ApplierCommit
    \/ SfSnap(Applier)
    \/ SfWrite(Applier)
    \/ \E x \in Ids : RefreshGet(x)
    \/ RefreshInode
    \/ RefreshWrite
SpecRefresh == InitRefresh /\ [][NextRefresh]_vars

(***************************************************************************)
(* FileByInode(inode): the cached File when the cache has one, else        *)
(* FileIdForInode, FileById, InodeForFileId, ChildFileIds, InodeForFileId  *)
(* for each child, and lruCache.Add.  A file key in the store has its      *)
(* forward key there too, so each InodeForFileId returns the stored inode; *)
(* the reads of the store, with the write of ChildFileIds, are taken       *)
(* together as one step.  qry.inode is the argument and qry.view the File. *)
(***************************************************************************)
\* the File struct: the gdrive.File, Inode and Children
MkView(f, n, ch) == [File |-> f, Inode |-> n, Children |-> ch]
\* no File: FileByInode returned an error
NoView == MkView(NoFile, 0, {})
\* the File FileByInode builds for inode n from store d
ViewOf(d, n) ==
    LET x == FileIdForInode(d, n)
    IN IF x = NoId \/ FileById(d, x) = NoFile THEN NoView
       ELSE MkView(FileById(d, x), GetInode(d, x),
                   {GetInode(d, c) : c \in ChildFileIds(d, x)})
\* the inodes a caller may ask for: those handed out so far.  An item of a
\* page makes nextInode run twice at most
InodeRange == (InodeFloor + 1) .. (InodeFloor + 2 * MaxChanges)
KnownInodes == {n \in InodeRange : n <= cpt.LastInode}

\* lruCache.Get(inode)
FileByInodeGet(n) ==
    /\ ~closed
    /\ QryFree
    /\ n \in KnownInodes
    /\ qry' = [op |-> "file", arg |-> NoId, ids |-> {}, batch |-> <<>>,
               at |-> EmptyDb, inode |-> n, turn |-> NextTurn,
               st |-> IF LruInode(n) \in DOMAIN lru THEN "ret" ELSE "miss",
               view |-> IF LruInode(n) \in DOMAIN lru THEN lru[LruInode(n)]
                        ELSE NoView]
    /\ UNCHANGED <<storeVars, cpt, changes, pollVars, applyVars, call, lru,
                   waiters, budgetVars, obsVars, iters, closed, cpc>>

\* the reads up to the loop over the children; an error returns
FileByInodeRead ==
    /\ ~closed
    /\ qry.op = "file" /\ qry.st = "miss"
    /\ LET x == FileIdForInode(db, qry.inode)
           v == ViewOf(db, qry.inode)
       IN /\ v # NoView => EnterKind(x) = "hit"
          /\ db' = IF v = NoView THEN db ELSE ChildFileIdsDb(db, x)
          /\ qry' = [qry EXCEPT !.st = IF v = NoView THEN "ret" ELSE "built",
                                !.view = v]
    /\ UNCHANGED <<history, cpt, changes, pollVars, applyVars, call, lru,
                   waiters, budgetVars, obsVars, iters, closed, cpc>>

\* lruCache.Add(inode, &file) and the return
FileByInodeAdd ==
    /\ qry.op = "file" /\ qry.st = "built"
    /\ lru' = LruAdd(lru, LruInode(qry.inode), qry.view)
    /\ qry' = [qry EXCEPT !.st = "ret"]
    /\ UNCHANGED <<storeVars, cpt, changes, pollVars, applyVars, call,
                   waiters, budgetVars, obsVars, iters, closed, cpc>>

InitView == InitState(0, 0, 0, 0)
NextView ==
    \/ RemoteChange
    \/ ReadChangesStart
    \/ ReadChangesDo
    \/ ReadChangesSend
    \/ ApplierRecv
    \/ ApplierCall
    \/ ApplierRemove
    \/ ApplierCheckpoint
    \/ ApplierCommit
    \/ SfSnap(Applier)
    \/ SfWrite(Applier)
    \/ \E n \in InodeRange : FileByInodeGet(n)
    \/ FileByInodeRead
    \/ FileByInodeAdd
SpecView == InitView /\ [][NextView]_vars

(***************************************************************************)
(* The channel variant with ChildFileIds queries and a folder whose id     *)
(* begins with the id of a file: files are put under that folder, and the  *)
(* files themselves are changed as before.                                 *)
(***************************************************************************)
\* an id that has IdSeq[1] as a proper prefix
LongId == IdSeq[1] \o IdSeq[2]
RemoteChangeNested ==
    /\ UNCHANGED qryVars
    /\ Len(history) < MaxChanges
    /\ \E c \in RemoteChanges(Len(history) + 1) :
         \/ history' = Append(history, c)
         \/ /\ ~c.Deleted
            /\ history' = Append(history,
                 [c EXCEPT !.File = MkFile(c.FileId, <<ParentFolder(LongId)>>,
                                           FALSE, FALSE)])
    /\ UNCHANGED <<db, cpt, changes, pollVars, applyVars, call, lru, waiters,
                   budgetVars, obsVars>>

InitPrefix == InitState(0, 0, 0, 0)
NextPrefix ==
    \/ RemoteChangeNested
    \/ ReadChangesStart
    \/ ReadChangesDo
    \/ ReadChangesSend
    \/ ApplierRecv
    \/ ApplierCall
    \/ ApplierRemove
    \/ ApplierCheckpoint
    \/ ApplierCommit
    \/ SfSnap(Applier)
    \/ SfWrite(Applier)
    \/ \E p \in Ids : ChildFileIdsOpen(p)
    \/ ChildFileIdsScan
    \/ ChildFileIdsWrite
SpecPrefix == InitPrefix /\ [][NextPrefix]_vars

(***************************************************************************)
(* Close.  No step of Close stops the goroutines or keeps a query from     *)
(* starting.  The steps that read or write d.db are those with the guard   *)
(* ~closed; a task that reaches one of them after d.db = nil dereferences  *)
(* nil and the process dies.                                               *)
(***************************************************************************)
\* Close is called
CloseCall ==
    /\ cpc = "idle"
    /\ cpc' = "wait"
    /\ UNCHANGED <<storeVars, cpt, changes, pollVars, applyVars, call, lru,
                   waiters, budgetVars, obsVars, qry, iters, closed>>

\* d.iters.Wait() returns
CloseWait ==
    /\ cpc = "wait"
    /\ iters = 0
    /\ cpc' = "close"
    /\ UNCHANGED <<storeVars, cpt, changes, pollVars, applyVars, call, lru,
                   waiters, budgetVars, obsVars, qry, iters, closed>>

\* d.db.Close() and d.db = nil
CloseDb ==
    /\ cpc = "close"
    /\ cpc' = "done"
    /\ closed' = TRUE
    /\ UNCHANGED <<storeVars, cpt, changes, pollVars, applyVars, call, lru,
                   waiters, budgetVars, obsVars, qry, iters>>

\* the sync goroutine or a query that has begun is at a step on d.db
AtStoreStep ==
    \/ apc \in {"l600", "l468", "l493"} /\ call[Applier].st = "idle"
    \/ call[Applier].st = "write"
    \/ apc \in {"rm", "commit"}
    \/ qry.op = "children" /\ qry.st \in {"iter", "scanned"}

\* that step on the nil store: every goroutine ends with the process
NilStore ==
    /\ closed
    /\ cpc = "done"
    /\ AtStoreStep
    /\ cpc' = "panic"
    /\ ppc' = "dead" /\ apc' = "dead"
    /\ qry' = [qry EXCEPT !.st = "dead"]
    /\ call' = [t \in Tasks |-> IdleCall]
    /\ UNCHANGED <<storeVars, cpt, changes, cursor, pending, page, idx, batch,
                   lru, waiters, budgetVars, obsVars, iters, closed>>

InitClose == InitState(0, 0, 0, 0)
NextClose ==
    \/ RemoteChangeOne
    \/ ReadChangesStart
    \/ ReadChangesDo
    \/ ReadChangesSend
    \/ ApplierRecv
    \/ ApplierCall
    \/ ApplierRemove
    \/ ApplierCheckpoint
    \/ ApplierCommit
    \/ SfSnap(Applier)
    \/ SfWrite(Applier)
    \/ \E p \in Ids : ChildFileIdsOpen(p)
    \/ ChildFileIdsScan
    \/ ChildFileIdsWrite
    \/ CloseCall
    \/ CloseWait
    \/ CloseDb
    \/ NilStore
SpecClose == InitClose /\ [][NextClose]_vars

(***************************************************************************)
(* WaitUntilSynced: the task blocks in d.synced.Wait() until the next      *)
(* Broadcast.                                                              *)
(***************************************************************************)
WaitUntilSynced(t) ==
    /\ t \notin waiters
    /\ waiters' = waiters \cup {t}
    /\ UNCHANGED <<storeVars, cpt, changes, pollVars, applyVars, call, lru,
                   budgetVars, obsVars, qryVars>>

(***************************************************************************)
(* The channel variant with a task that waits for the synced signal, timer *)
(* ticks, and store writes that may fail.                                  *)
(***************************************************************************)
InitSync == InitState(MaxPolls, 0, MaxFail, 0)
NextSync ==
    \/ RemoteChange
    \/ PollTick
    \/ ReadChangesStart
    \/ ReadChangesDo
    \/ ReadChangesSend
    \/ ApplierRecv
    \/ ApplierCall
    \/ ApplierRemove
    \/ ApplierCheckpoint
    \/ ApplierCommit
    \/ SfSnap(Applier)
    \/ SfWrite(Applier)
    \/ WaitUntilSynced("f1")
SpecSync == InitSync /\ [][NextSync]_vars

(***************************************************************************)
(* The channel variant with a ticker that never stops, a task that waits   *)
(* for the synced signal, and changes the listing does not show.  The      *)
(* poller and the applier are scheduled fairly; no request and no store    *)
(* write fails.                                                            *)
(***************************************************************************)
Poller == PollTickAlways \/ ReadChangesStart \/ ReadChangesDo \/ ReadChangesSend
Syncer ==
    \/ ApplierRecv \/ ApplierCall \/ ApplierRemove \/ ApplierCheckpoint
    \/ ApplierCommit \/ SfSnap(Applier) \/ SfWrite(Applier)
InitLive == InitState(0, 0, 0, 0)
NextLive ==
    \/ RemoteChangePlain
    \/ RemoteChangeOmitted
    \/ Poller
    \/ Syncer
    \/ WaitUntilSynced("f1")
SpecLive == InitLive /\ [][NextLive]_vars /\ WF_vars(Poller) /\ WF_vars(Syncer)

(***************************************************************************)
(* The channel variant with a ticker that never stops and may fill the     *)
(* channel; the poller and the applier are scheduled fairly, and no        *)
(* request and no store write fails.                                       *)
(***************************************************************************)
PollerFlood == Poller \/ PollTickFlood
InitHandoff == InitState(0, 0, 0, 0)
NextHandoff ==
    \/ RemoteChangePlain
    \/ PollerFlood
    \/ Syncer
SpecHandoff ==
    InitHandoff /\ [][NextHandoff]_vars /\ WF_vars(PollerFlood) /\ WF_vars(Syncer)

(***************************************************************************)
(* The channel variant with a crash and no timer tick: pollForChanges      *)
(* reads the changes once after each start.                                *)
(***************************************************************************)
InitCrash == InitState(0, MaxCrash, 0, 0)
NextCrash ==
    \/ RemoteChange
    \/ ReadChangesStart
    \/ ReadChangesDo
    \/ ReadChangesSend
    \/ ApplierRecv
    \/ ApplierCall
    \/ ApplierRemove
    \/ ApplierCheckpoint
    \/ ApplierCommit
    \/ SfSnap(Applier)
    \/ SfWrite(Applier)
    \/ Crash
SpecCrash == InitCrash /\ [][NextCrash]_vars

(***************************************************************************)
(* processChange run alone and to its end, as a function: the store and    *)
(* the in-memory checkpoint after the items, from the store d and the      *)
(* checkpoint c.                                                           *)
(***************************************************************************)
\* InodeForFileId(x) run alone: nothing when x has a forward key, else
\* nextInode and the write of the allocation batch
AllocAlone(dc, x) ==
    IF GetInode(dc.db, x) # 0 THEN dc
    ELSE [db |-> DbWrite(dc.db, AllocBatch(nextInode(dc.cpt), x, dc.cpt.LastInode + 1)),
          cpt |-> nextInode(dc.cpt)]
\* one item of the loop in processChange
ItemAlone(dc, i) ==
    LET x == i.FileId
        s0 == AllocAlone(dc, x)
        c1 == [s0.cpt EXCEPT !.LastChangeID = i.Id]
    IN IF Deleting(i)
       THEN LET dels == RemoveFileDeletes(s0.db, x)
                s1 == AllocAlone([db |-> DbWrite(s0.db, dels), cpt |-> s0.cpt], x)
                c2 == [s1.cpt EXCEPT !.LastChangeID = i.Id]
            IN [db |-> DbWrite(s1.db, Append(dels, BPut(CheckpointKey, c2))),
                cpt |-> c2]
       ELSE [db |-> DbWrite(s0.db, Append(UpdateFilePuts(i.File),
                                          BPut(CheckpointKey, c1))),
             cpt |-> c1]
RECURSIVE ItemsAlone(_, _)
ItemsAlone(dc, items) ==
    IF items = <<>> THEN dc
    ELSE ItemsAlone(ItemAlone(dc, Head(items)), Tail(items))

\* what InodeForFileId(x) returns when called in this state with no call
\* for x in flight: the stored inode, else the next inode
InodeForFileId(x) ==
    IF GetInode(db, x) # 0 THEN GetInode(db, x) ELSE cpt.LastInode + 1

(***************************************************************************)
(* Steps of the applier, recognised in a behaviour.                        *)
(***************************************************************************)
\* a store write of the applier: RemoveFileById's or the commit
ApplierWrote ==
    /\ apc \in {"rm", "commit"}
    /\ apc' # apc
    /\ nCrash' = nCrash
\* the commit of the current item succeeded
Committed ==
    /\ apc = "commit"
    /\ apc' # apc
    /\ nCrash' = nCrash
    /\ nFail' = nFail
\* the part of the store that holds the files and the indexes
Entities(d) ==
    [k \in {j \in DOMAIN d : j.tag \in {"fid", "rtf", "kid", "f2i"}} |-> d[k]]

(***************************************************************************)
(* C1.  Checkpoint durability (I3): no write of the applier changes the    *)
(* file or index keys of the store unless the checkpoint it leaves in the  *)
(* store has reached the change id of the item being applied.              *)
(***************************************************************************)
C1_CheckpointCarriesEffects ==
    [][(ApplierWrote /\ Entities(db') # Entities(db))
         => StoredCpt(db').LastChangeID >= Item.Id]_vars

(***************************************************************************)
(* C3.  The applier never assigns a smaller value to the in-memory         *)
(* LastChangeID than the one it holds.                                     *)
(***************************************************************************)
C3_LastChangeIdMonotone ==
    [][(apc = "ckpt" /\ apc' = "commit")
         => cpt'.LastChangeID >= cpt.LastChangeID]_vars

(***************************************************************************)
(* C5.  Inode stability (P3): once InodeForFileId(x) has returned n, every *)
(* later call for x returns n.                                             *)
(***************************************************************************)
C5_InodeStable ==
    [][\A x \in Ids : lastRet[x] # 0 => lastRet'[x] = lastRet[x]]_vars

(***************************************************************************)
(* C6.  Identity round trip (P4): for every inode n with a reverse key,    *)
(* inode_for_id(id_for_inode(n)) = n, and for every id x with a forward    *)
(* key, id_for_inode(inode_for_id(x)) = x.                                 *)
(***************************************************************************)
C6_RoundTrip ==
    /\ \A n \in Inodes(db) : InodeForFileId(FileIdForInode(db, n)) = n
    /\ \A x \in Ids : GetInode(db, x) # 0
                        => FileIdForInode(db, InodeForFileId(x)) = x

(***************************************************************************)
(* C9.  Idempotent re-application (P1): when processChange finishes a page *)
(* that is the page it finished just before, the store is the store it     *)
(* left the first time.                                                    *)
(***************************************************************************)
C9_Idempotent ==
    [][(Committed /\ apc' = "recv" /\ page = done.page) => db' = done.db]_vars

(***************************************************************************)
(* C10.  Tombstone policy (I5/P7): when the commit of a deleting change    *)
(* for x succeeds and x was stored with inode n when the item began, the   *)
(* file of x is not found, x is no root and no child of any parent, and    *)
(* the reverse key of n still names x.                                     *)
(***************************************************************************)
C10_Tombstone ==
    [][(Committed /\ Deleting(Item) /\ pre.file # NoFile /\ pre.inode # 0)
         => LET x == Item.FileId
            IN /\ FileById(db', x) = NoFile
               /\ x \notin RootFileIds(db')
               /\ \A p \in Ids \cup {RootId} : x \notin ChildFileIds(db', p)
               /\ FileIdForInode(db', pre.inode) = x]_vars


(***************************************************************************)
(* C2.  No skipped change: the files in the store are the files after      *)
(* some prefix of the change log that reaches at least the stored          *)
(* LastChangeID.                                                           *)
(***************************************************************************)
\* the file of x after the changes 1..j applied in order
RECURSIVE ExpectedFile(_, _, _)
ExpectedFile(h, j, x) ==
    IF j = 0 THEN NoFile
    ELSE IF h[j].FileId = x
         THEN IF Deleting(h[j]) THEN NoFile ELSE h[j].File
         ELSE ExpectedFile(h, j - 1, x)

C2_NoSkippedChange ==
    \E j \in StoredCpt(db).LastChangeID .. Len(history) :
        \A x \in Ids : FileById(db, x) = ExpectedFile(history, j, x)

(***************************************************************************)
(* C4.  Inode uniqueness (I2): a reverse key, once written, is never       *)
(* written again with another id.                                          *)
(***************************************************************************)
C4_InodeNeverReassigned ==
    [][\A n \in Inodes(db) : FileIdForInode(db', n) = FileIdForInode(db, n)]_vars

(***************************************************************************)
(* C8.  Single-flight allocation (P8): while a call of InodeForFileId(x)   *)
(* that began on an unseen x is open, nextInode runs at most once for x    *)
(* and every call for x that returns, returns the same inode.              *)
(***************************************************************************)
C8_SingleFlight ==
    [][\A u \in Tasks :
         /\ (call[u].st # "idle" /\ call[u].seen > 0)
              => lastRet'[call[u].id] = call[u].seen
         /\ call'[u].incs <= 1]_vars


(***************************************************************************)
(* C7.  Identity invariant (I1): every id whose file key is in the store   *)
(* has a forward key, and the reverse key of that inode names the id.      *)
(***************************************************************************)
C7_Identity ==
    \A x \in Ids :
        Has(db, fileKey(x))
          => /\ GetInode(db, x) # 0
             /\ FileIdForInode(db, GetInode(db, x)) = x


(***************************************************************************)
(* C11.  Index hygiene (P5): a ChildFileIds(p) that ran with no other      *)
(* write to the store returns the ids c with both kid:p:c and fid:c in the *)
(* store, and leaves no kid:p:c whose fid:c is absent.  This is the        *)
(* statement as claimed, whatever became of the write of the stale keys.   *)
(***************************************************************************)
\* ChildFileIds returns in this step and nothing else wrote since it began
ChildFileIdsRan ==
    /\ qry.op = "children" /\ qry.st \in {"iter", "scanned"}
    /\ qry'.st = "ret"
    /\ qry.at = db
ChildrenExact ==
    qry'.ids = {c \in Ids : /\ Has(db, childKey(ChildRef(qry.arg, c)))
                            /\ Has(db, fileKey(c))}
NoStaleChild(d, p) ==
    \A c \in Ids : Has(d, childKey(ChildRef(p, c))) => Has(d, fileKey(c))

Recovered ==
    /\ nCrash < MaxCrash
    /\ ppc = "idle" /\ changes = <<>> /\ apc = "recv"
    /\ StoredCpt(db).LastChangeID > 0
C12_CrashMidPage ==
    Recovered =>
        db = ItemsAlone([db |-> DbPut(EmptyDb, CheckpointKey, FirstCpt),
                         cpt |-> FirstCpt],
                        SubSeq(history, 1, StoredCpt(db).LastChangeID)).db


(***************************************************************************)
(* C13.  Empty start (scenario 1): without a saved checkpoint LastInode    *)
(* starts at the floor; the inodes in the store are the consecutive        *)
(* numbers above the floor up to the saved LastInode; and when the page    *)
(* that upserts x in the root and then y under x has been applied, the     *)
(* root ids are {x}, the children of x are {y}, the inodes of x and y are  *)
(* floor + 1 and floor + 2, and the saved LastChangeID is that of the last *)
(* item.                                                                   *)
(***************************************************************************)
\* the log is: x put in the root, then y put under x
Scenario1(x, y) ==
    history = <<[Id |-> 1, FileId |-> x, Deleted |-> FALSE,
                 File |-> MkFile(x, <<ParentRoot>>, FALSE, FALSE)],
                [Id |-> 2, FileId |-> y, Deleted |-> FALSE,
                 File |-> MkFile(y, <<ParentFolder(x)>>, FALSE, FALSE)]>>
\* processChange has finished the page of the whole log and left this
\* store, and has not begun another page
PageApplied == done.page.Items = history /\ db = done.db /\ apc = "recv"

C13_EmptyStart ==
    /\ history = <<>> => cpt.LastInode = InodeFloor
    /\ Inodes(db) = (InodeFloor + 1) .. StoredCpt(db).LastInode
    /\ \A x, y \in Ids :
         (x # y /\ Scenario1(x, y) /\ PageApplied)
           => /\ RootFileIds(db) = {x}
              /\ ChildFileIds(db, x) = {y}
              /\ InodeForFileId(x) = InodeFloor + 1
              /\ InodeForFileId(y) = InodeFloor + 2
              /\ StoredCpt(db).LastChangeID = 2
              /\ cpt.LastChangeID = 2

C13_Witness ==
    \E x, y \in Ids : x # y /\ Scenario1(x, y) /\ PageApplied


(***************************************************************************)
(* C14.  Synced only after commit: when the synced signal is broadcast     *)
(* (seen by a task that waits being released), the LastChangeID saved in   *)
(* the store has reached the LargestChangeId of the page that caused the   *)
(* broadcast.                                                              *)
(***************************************************************************)
\* the page the applier is deciding on: the one it receives, or the one it
\* is applying
TriggerPage == IF apc = "recv" THEN Head(changes) ELSE page
C14_SyncedAfterCommit ==
    [][(waiters # {} /\ waiters' = {})
         => StoredCpt(db').LastChangeID >= TriggerPage.LargestChangeId]_vars


(***************************************************************************)
(* C15.  WaitUntilSynced liveness: a task blocked in WaitUntilSynced is    *)
(* released in the end, when the poller and the applier are scheduled      *)
(* fairly and nothing fails.                                               *)
(***************************************************************************)
C15_WaiterReleased == ("f1" \in waiters) ~> ("f1" \notin waiters)


(***************************************************************************)
(* C16.  Safe close: the store is closed only while no iterator is open,   *)
(* no iterator is opened once Close has been called, and no task does a    *)
(* store operation on the closed store.                                    *)
(***************************************************************************)
C16_SafeClose ==
    [][/\ (closed' /\ ~closed) => iters = 0
       /\ iters' > iters => cpc = "idle"
       /\ cpc' # "panic"]_vars


(***************************************************************************)
(* C17.  Root-set cache invalidation: a RootInodes call that starts while  *)
(* the applier is between pages and that answers from the cache returns    *)
(* the inodes of the ids that are under rtf: in the store.                 *)
(***************************************************************************)
RootInodesFromCache ==
    /\ QryFree /\ qry'.op = "roots" /\ qry'.st = "ret"
    /\ apc = "recv"
C17_RootCacheFresh ==
    [][RootInodesFromCache =>
          qry'.ids = {GetInode(db, x) : x \in RootFileIds(db)}]_vars


(***************************************************************************)
(* C18.  UpdateFile without a batch commits: when Refresh returns the      *)
(* file, the store holds every put of UpdateFile's batch (fid:<id> with    *)
(* the file, and rtf:<id> or kid:<parent>:<id> for each parent).           *)
(***************************************************************************)
RefreshReturns == qry.op = "refresh" /\ qry.st = "built" /\ qry'.st = "ret"
C18_UpdateFileCommits ==
    [][RefreshReturns => DbWrite(db', qry.batch) = db']_vars


(***************************************************************************)
(* C19.  A failed commit does not advance the checkpoint: when the commit  *)
(* of an item's batch fails, the in-memory LastChangeID is afterwards the  *)
(* one saved in the store, so that the next readChanges asks for the       *)
(* changes after the last one that was saved.                              *)
(***************************************************************************)
CommitFailed == apc = "commit" /\ apc' = "recv" /\ nFail' = nFail - 1
C19_FailedCommitKeepsCheckpoint ==
    [][CommitFailed => cpt'.LastChangeID = StoredCpt(db').LastChangeID]_vars


(***************************************************************************)
(* C20.  The persisted checkpoint never regresses: no store write lowers   *)
(* the saved LastInode or the saved LastChangeID, and the saved LastInode  *)
(* is at least every inode under an f2i: or i2f: key.                      *)
(***************************************************************************)
C20_CheckpointNeverRegresses ==
    [][/\ StoredCpt(db').LastInode >= StoredCpt(db).LastInode
       /\ StoredCpt(db').LastChangeID >= StoredCpt(db).LastChangeID
       /\ \A n \in Inodes(db') : n <= StoredCpt(db').LastInode
       /\ \A x \in Ids : GetInode(db', x) <= StoredCpt(db').LastInode]_vars


(***************************************************************************)
(* C21.  LRU invalidation per change: when every change of the log is      *)
(* committed and the applier is between pages, a FileByInode(n) call that  *)
(* answers from the cache returns the file the log's last change for the   *)
(* id of n gives, and an error when that change deletes it.                *)
(***************************************************************************)
AllCommitted ==
    /\ apc = "recv" /\ changes = <<>> /\ ppc = "idle"
    /\ StoredCpt(db).LastChangeID = Len(history)
FileByInodeFromCache(n) ==
    /\ QryFree /\ qry'.op = "file" /\ qry'.st = "ret" /\ qry'.inode = n
    /\ LruInode(n) \in DOMAIN lru
C21_LruInvalidatedPerChange ==
    [][\A n \in InodeRange :
          (AllCommitted /\ FileByInodeFromCache(n) /\ FileIdForInode(db, n) # NoId)
             => qry'.view.File
                  = ExpectedFile(history, Len(history), FileIdForInode(db, n))]_vars


(***************************************************************************)
(* C22.  An upsert writes the parent references: when the single-loop      *)
(* variant has written the batch of a page, then for each id whose last    *)
(* item in the page is an upsert the store has, for each parent reference  *)
(* of the item's file, rtf:x when it is the root and kid:<parent>:x        *)
(* otherwise; the puts made for the references are one for each.           *)
(***************************************************************************)
ParentKey(x, pr) ==
    IF pr.IsRoot THEN rootKey(x) ELSE childKey(ChildRef(pr.Id, x))
\* the page's last item for x, an item of no id when it has none
LastItemOf(items, x) ==
    LET at == {k \in 1..Len(items) : items[k].FileId = x}
    IN IF at = {} THEN OmittedChange(0)
       ELSE items[CHOOSE k \in at : \A j \in at : j <= k]
LoopWrote == apc = "apply" /\ apc' = "do" /\ nFail' = nFail
C22_UpsertWritesParents ==
    [][LoopWrote =>
         \A x \in Ids :
            LET i == LastItemOf(page.Items, x)
                prs == i.File.Parents
            IN (i.FileId = x /\ ~Deleting(i)) =>
                 /\ Len(ParentPuts(x, prs)) = Len(prs)
                 /\ \A k \in 1..Len(prs) :
                      /\ ParentPuts(x, prs)[k].key = ParentKey(x, prs[k])
                      /\ Has(db', ParentKey(x, prs[k]))]_vars


(***************************************************************************)
(* C23.  A move leaves no stale membership: for a file in the store,       *)
(* RootFileIds has its id only if the stored file has the root as a        *)
(* parent, and ChildFileIds(p) has it only if the stored file has p as a   *)
(* parent that is not the root.                                            *)
(***************************************************************************)
HasRootParent(f) == \E k \in 1..Len(f.Parents) : f.Parents[k].IsRoot
HasParent(f, p) ==
    \E k \in 1..Len(f.Parents) : ~f.Parents[k].IsRoot /\ f.Parents[k].Id = p
C23_NoStaleMembership ==
    \A x \in Ids :
       FileById(db, x) # NoFile =>
          /\ x \in RootFileIds(db) => HasRootParent(FileById(db, x))
          /\ \A p \in Ids :
                x \in ChildFileIds(db, p) => HasParent(FileById(db, x), p)


(***************************************************************************)
(* C24.  Prefix scans touch only the named parent: a key kid:q:c of a      *)
(* folder q whose id begins with the id of p is deleted only by the        *)
(* deleting change for c, not by ChildFileIds(p) and not by a deleting     *)
(* change for p; and ChildFileIds(p) returns only ids c that have a key    *)
(* kid:p:c.                                                                *)
(***************************************************************************)
DeletingItemOf(c) ==
    /\ apc \in {"rm", "commit"}
    /\ Item.FileId = c
    /\ Deleting(Item)
ChildKeyKept(q, c) ==
    (Has(db, childKey(ChildRef(q, c))) /\ ~Has(db', childKey(ChildRef(q, c))))
       => DeletingItemOf(c)
ChildFileIdsReturned ==
    qry.op = "children" /\ qry.st \in {"iter", "scanned"} /\ qry'.st = "ret"
C24_PrefixScanFrame ==
    [][/\ \A c \in Ids : ChildKeyKept(LongId, c)
       /\ ChildFileIdsReturned =>
            \A c \in qry'.ids : Has(qry.at, childKey(ChildRef(qry.arg, c)))]_vars


(***************************************************************************)
(* C25.  Handoff ordering and no loss: the channel changes only by the     *)
(* poller's page going behind the pages in it and by the applier taking    *)
(* the first page, which it then applies from its first item to its last,  *)
(* one after the other; the poller waits at a full channel with its page;  *)
(* and a page in the channel is taken in the end.                          *)
(***************************************************************************)
PageSent ==
    /\ ppc = "send" /\ Len(changes) < ChanCap
    /\ changes' = Append(changes, pending)
PageTaken ==
    /\ apc = "recv" /\ changes # <<>>
    /\ changes' = Tail(changes)
    /\ Head(changes).Items # <<>> => (page' = Head(changes) /\ idx' = 1)
HandoffStep ==
    /\ changes' # changes => (PageSent \/ PageTaken)
    /\ (ppc = "send" /\ ppc' # "send") => PageSent
    /\ (ppc = "send" /\ Len(changes) = ChanCap) => (ppc' = "send" /\ pending' = pending)
    /\ page' # page => (apc = "recv" \/ (apc' = "recv" /\ idx = Len(page.Items)))
    /\ (apc # "recv" /\ apc' # "recv") => idx' \in {idx, idx + 1}
    /\ idx' = idx + 1 => (apc = "commit" \/ apc = "recv")
C25_HandoffInOrder ==
    /\ [][HandoffStep]_vars
    /\ ([]<>(changes = <<>>) \/ []<><<ApplierRecv>>_vars)
\* the poller waits at the full channel
C25_Witness == Len(changes) = ChanCap /\ ppc = "send"


(***************************************************************************)
(* C26.  Deleting changes allocate nothing: no step the applier takes for  *)
(* a deleting item changes LastInode, adds a reverse key, or gives an id a *)
(* forward key it did not have.                                            *)
(***************************************************************************)
ApplyingDelete == apc # "recv" /\ Deleting(Item) /\ nCrash' = nCrash
C26_DeleteAllocatesNothing ==
    [][ApplyingDelete =>
          /\ cpt'.LastInode = cpt.LastInode
          /\ Inodes(db') \subseteq Inodes(db)
          /\ \A x \in Ids : GetInode(db', x) \in {0, GetInode(db, x)}]_vars


(***************************************************************************)
(* C27.  Parent view freshness: when every change of the log is committed  *)
(* and the applier is between pages, a FileByInode(n) call that answers    *)
(* from the cache for a file in the store returns as Children the inodes   *)
(* of the ids ChildFileIds gives for that file.                            *)
(***************************************************************************)
C27_ParentViewFresh ==
    [][\A n \in InodeRange :
          (/\ AllCommitted
           /\ FileByInodeFromCache(n)
           /\ FileIdForInode(db, n) # NoId
           /\ FileById(db, FileIdForInode(db, n)) # NoFile)
             => qry'.view.Children
                  = {GetInode(db, c) : c \in ChildFileIds(db, FileIdForInode(db, n))}]_vars

====
